---- MODULE Spec2Model ----
(***************************************************************************)
(* py2puml: the tree visitor that extracts class records from a Python     *)
(* syntax tree, the namespace bookkeeping of the PlantUML generator and    *)
(* the main loop that drives both over a list of source files.             *)
(* Source: src/py2puml/py2puml.py                                          *)
(***************************************************************************)
EXTENDS Integers, Sequences, FiniteSets, TLC

VARIABLES
    cl_args,      \* parsed command line: [root, config, py_file]; root is
                  \* "" when -r is not given (None is as false as '')
    pc,           \* position of the main program (lines 291-322), or the
                  \* exception that ended it
    fileIdx,      \* index in cl_args.py_file of the file being processed
    namespaces,   \* PUML_Generator.namespaces
    sourcename,   \* PUML_Generator.sourcename, "" for None
    dest,         \* lines written to PUML_Generator.dest, in order
    stdout,       \* text the except clause printed (lines 325-327)
    classinfo,    \* TreeVisitor.classinfo
    constructor,  \* TreeVisitor.constructor
    frames        \* call stack of the visitor's traversal, innermost last

vars == <<cl_args, pc, fileIdx, namespaces, sourcename, dest, stdout,
          classinfo, constructor, frames>>

-----------------------------------------------------------------------------
(* Strings.  Python str operations used by the program, on TLC strings.    *)

\* F applied to the value of e, with e evaluated once: a local variable.
Let(F(_), e) == CHOOSE r \in {F(x) : x \in {e}} : TRUE

\* s[i-1] in Python terms: the i-th character, 1-based.
Char(s, i) == SubSeq(s, i, i)

\* str.startswith
StartsWith(s, prefix) ==
    /\ Len(prefix) <= Len(s)
    /\ SubSeq(s, 1, Len(prefix)) = prefix

\* str.rfind, 1-based; 0 when the character does not occur (Python's -1).
RFind(s, c) ==
    LET hits == {i \in 1..Len(s) : Char(s, i) = c}
    IN  IF hits = {} THEN 0 ELSE CHOOSE i \in hits : \A j \in hits : j <= i

\* str.find from position `from`, 1-based; 0 when not found.
Find(s, c, from) ==
    LET hits == {i \in from..Len(s) : Char(s, i) = c}
    IN  IF hits = {} THEN 0 ELSE CHOOSE i \in hits : \A j \in hits : i <= j

RECURSIVE SplitFrom(_, _, _)
\* The pieces of s from position `from` on.
SplitFrom(s, sep, from) ==
    Let(LAMBDA i :
            IF i = 0 THEN <<SubSeq(s, from, Len(s))>>
            ELSE <<SubSeq(s, from, i - 1)>> \o SplitFrom(s, sep, i + 1),
        Find(s, sep, from))

\* str.split(sep) for a one-character separator.
Split(s, sep) == Let(LAMBDA v : SplitFrom(v, sep, 1), s)

RECURSIVE JoinFirst(_, _, _)
\* The first n elements of list, joined.
JoinFirst(list, sep, n) ==
    IF n = 0 THEN ""
    ELSE IF n = 1 THEN list[1]
    ELSE JoinFirst(list, sep, n - 1) \o sep \o list[n]

\* sep.join(list)
Join(list, sep) == Let(LAMBDA v : JoinFirst(v, sep, Len(v)), list)

Whitespace == {" ", "\n", "\t"}

\* str.rstrip()
RStrip(s) ==
    Let(LAMBDA v :
            LET kept == {i \in 1..Len(v) : Char(v, i) \notin Whitespace}
            IN  IF kept = {} THEN ""
                ELSE SubSeq(v, 1, CHOOSE i \in kept : \A j \in kept : j <= i),
        s)

-----------------------------------------------------------------------------
(* Paths.  os.path.sep, os.path.relpath and os.path.splitext as            *)
(* start_file uses them (POSIX).                                           *)

Sep == "/"
ParDir == ".."
CurDir == "."

\* Working directory of the run; relative paths are resolved against it.
Cwd == "/w"

\* os.path.abspath for the normalized paths the model feeds it.
AbsPath(p) == IF StartsWith(p, Sep) THEN p ELSE Cwd \o Sep \o p

NotEmpty(x) == x # ""

\* [x for x in p.split(sep) if x]
Components(p) == SelectSeq(Split(p, Sep), NotEmpty)

RECURSIVE CommonPrefixFrom(_, _, _)
\* The number of equal leading components of a and b, the first i known
\* to be equal.
CommonPrefixFrom(a, b, i) ==
    IF i >= Len(a) \/ i >= Len(b) \/ a[i + 1] # b[i + 1] THEN i
    ELSE CommonPrefixFrom(a, b, i + 1)

\* len(os.path.commonprefix([a, b])) on component lists
CommonPrefixLen(a, b) == CommonPrefixFrom(a, b, 0)

\* relpath once both paths are split into components.
RelList(start_list, path_list) ==
    Let(LAMBDA i :
            [k \in 1..(Len(start_list) - i) |-> ParDir]
            \o SubSeq(path_list, i + 1, Len(path_list)),
        CommonPrefixLen(start_list, path_list))

\* os.path.relpath(path, start)
RelPath(path, start) ==
    Let(LAMBDA start_list :
        Let(LAMBDA path_list :
            Let(LAMBDA rel_list :
                    IF rel_list = <<>> THEN CurDir ELSE Join(rel_list, Sep),
                RelList(start_list, path_list)),
            Components(AbsPath(path))),
        Components(AbsPath(start)))

\* splitext once the last separator and the last dot are found.
SplitExtAt(p, sepIndex, dotIndex) ==
    IF dotIndex > sepIndex
       /\ \E k \in (sepIndex + 1)..(dotIndex - 1) : Char(p, k) # "."
    THEN SubSeq(p, 1, dotIndex - 1)
    ELSE p

\* os.path.splitext(p)[0]: the extension starts at the last dot of the last
\* component, unless that component has only dots before it.
SplitExtRoot(p) ==
    Let(LAMBDA v : SplitExtAt(v, RFind(v, Sep), RFind(v, ".")), p)

-----------------------------------------------------------------------------
(* Syntax trees.  The ast nodes the visitor distinguishes, as records.     *)

\* Expressions: ast.Name, ast.Attribute, ast.Subscript, ast.Tuple.
Name(id) == [type |-> "Name", id |-> id, attr |-> "", value |-> <<>>]
Attribute(value, attr) ==
    [type |-> "Attribute", id |-> "", attr |-> attr, value |-> <<value>>]
Subscript(value, slice) ==
    [type |-> "Subscript", id |-> "", attr |-> "", value |-> <<value, slice>>]
Tuple(elts) == [type |-> "Tuple", id |-> "", attr |-> "", value |-> elts]

\* Statements: ast.Module, ast.ClassDef, ast.FunctionDef, ast.Assign, and
\* ast.If / ast.Pass for the kinds the visitor has no handler for.
Node(type, name, bases, args, targets, body) ==
    [type |-> type, name |-> name, bases |-> bases, args |-> args,
     targets |-> targets, body |-> body]
Module(body) == Node("Module", "", <<>>, <<>>, <<>>, body)
ClassDef(name, bases, body) == Node("ClassDef", name, bases, <<>>, <<>>, body)
FunctionDef(name, args, body) ==
    Node("FunctionDef", name, <<>>, args, <<>>, body)
Assign(targets) == Node("Assign", "", <<>>, <<>>, targets, <<>>)

\* What ast.parse raises for a text that is no Python: the SyntaxError with
\* its lineno, offset and text.
SyntaxError(lineno, offset, text) ==
    [type |-> "SyntaxError", lineno |-> lineno, offset |-> offset,
     text |-> text]
If(body) == Node("If", "", <<>>, <<>>, <<>>, body)
Pass == Node("Pass", "", <<>>, <<>>, <<>>, <<>>)

RECURSIVE ExprSource(_)
\* The source text astor writes for an expression.
ExprSource(expr) ==
    Let(LAMBDA e :
            IF e.type = "Name" THEN e.id
            ELSE IF e.type = "Attribute"
                 THEN ExprSource(e.value[1]) \o "." \o e.attr
            ELSE IF e.type = "Subscript"
                 THEN ExprSource(e.value[1]) \o "["
                      \o ExprSource(e.value[2]) \o "]"
            ELSE "(" \o Join([i \in 1..Len(e.value) |->
                                 ExprSource(e.value[i])], ", ") \o ")",
        expr)

\* astor.to_source(node) for an expression: its text and a newline.
to_source(e) == ExprSource(e) \o "\n"

\* astor.to_source(m.args) for a plain positional parameter list.
args_to_source(args) == Join(args, ", ") \o "\n"

-----------------------------------------------------------------------------
(* ClassInfo (lines 53-91).                                                *)

\* The value of TreeVisitor.classinfo when no class is open.
None == [type |-> "NoneType"]

\* ClassInfo.__init__
ClassInfo(node) ==
    [classname |-> node.name, bases |-> node.bases,
     classvars |-> <<>>, members |-> <<>>, methods |-> <<>>]

\* visibility that takes only the double underscore for the privacy prefix.
visibility_dunder(name) == IF StartsWith(name, "__") THEN "-" ELSE "+"

\* ClassInfo.visibility
visibility(name) == IF StartsWith(name, "_") THEN "-" ELSE "+"

\* ClassInfo.add_classvar
add_classvar(ci, name) == [ci EXCEPT !.classvars = Append(@, name)]

\* `name not in self.members`
InList(name, list) == \E i \in 1..Len(list) : list[i] = name

\* add_member without the test `name not in self.members`.
add_member_always(ci, name) == [ci EXCEPT !.members = Append(@, name)]

\* ClassInfo.add_member
add_member(ci, name) ==
    IF ~InList(name, ci.members)
    THEN [ci EXCEPT !.members = Append(@, name)]
    ELSE ci

\* ClassInfo.add_method
add_method(ci, node) == [ci EXCEPT !.methods = Append(@, node)]

-----------------------------------------------------------------------------
(* PUML_Generator (lines 154-258).  Its methods are operators on the pair  *)
(* g = [namespaces, dest] of the fields they change.                       *)

\* puml indentation unit
TAB == "  "

\* PUML_Generator.depth
depth(g) == Len(g.namespaces)

\* PUML_Generator.indent: one output line, TAB repeated `tabs` times
\* followed by the arguments joined by blanks.
indent(g, args) ==
    LET tabs == IF g.namespaces # <<>> THEN depth(g) ELSE 0
    IN  [g EXCEPT !.dest = Append(@, [tabs |-> tabs, text |-> Join(args, " ")])]

\* push_ns that writes the start marker and leaves the stack as it is.
push_ns_unrecorded(g, name) == indent(g, <<"namespace " \o name \o " {">>)

\* PUML_Generator.push_ns
push_ns(g, name) ==
    Let(LAMBDA g1 : [g1 EXCEPT !.namespaces = Append(@, name)],
        indent(g, <<"namespace " \o name \o " {">>))

\* pop_one that writes the end marker before it pops.
pop_one_marker_first(g) ==
    Let(LAMBDA g1 : [g1 EXCEPT !.namespaces = SubSeq(@, 1, Len(@) - 1)],
        indent(g, <<"}">>))

\* One round of the loop of pop_ns: pop, then write the end marker.
pop_one(g) ==
    Let(LAMBDA g1 : indent(g1, <<"}">>),
        [g EXCEPT !.namespaces = SubSeq(@, 1, Len(@) - 1)])

RECURSIVE pop_ns(_, _)
\* PUML_Generator.pop_ns
pop_ns(g, count) ==
    IF count <= 0 THEN g
    ELSE Let(LAMBDA g1 : pop_ns(g1, count - 1), pop_one(g))

RECURSIVE push_from(_, _, _)
\* `for d in namespaces[n:]: self.push_ns(d)`, from d = names[i] on
push_from(g, names, i) ==
    IF i > Len(names) THEN g
    ELSE Let(LAMBDA g1 : push_from(g1, names, i + 1), push_ns(g, names[i]))

\* common_path without the test `d != namespaces[n]`: the loop stops only
\* at the end of either list.
common_path_lengths(current, target, n) ==
    IF Len(current) <= Len(target) THEN Len(current) ELSE Len(target)

\* common_path that never finds a shared namespace.
common_path_none(current, target, n) == 0

RECURSIVE common_path(_, _, _)
\* The loop of start_file that determines the common path: n after it.
common_path(current, target, n) ==
    IF n >= Len(current) THEN n
    ELSE IF n >= Len(target) THEN n
    ELSE IF current[n + 1] # target[n + 1] THEN n
    ELSE common_path(current, target, n + 1)

\* The namespace names start_file derives from the file name (lines 172-173).
file_namespaces(name, root) == Split(SplitExtRoot(RelPath(name, root)), Sep)

\* start_file from the common path on (lines 175-186).
switch_namespaces(g, target) ==
    Let(LAMBDA n :
        Let(LAMBDA g1 : push_from(g1, target, n + 1),
            pop_ns(g, Len(g.namespaces) - n)),
        common_path(g.namespaces, target, 0))

\* start_file without the test `if self.root`.
start_file_always(g, name, root) ==
    Let(LAMBDA target : switch_namespaces(g, target),
        file_namespaces(name, root))

\* PUML_Generator.start_file, the part under `if self.root`
start_file(g, name, root) ==
    IF root # ""
    THEN Let(LAMBDA target : switch_namespaces(g, target),
             file_namespaces(name, root))
    ELSE g

\* PUML_Generator.header
header(g, config) ==
    Let(LAMBDA g1 :
            IF config.prolog # "" THEN indent(g1, <<config.prolog \o "\n">>)
            ELSE g1,
        indent(g, <<"@startuml">>))

\* PUML_Generator.footer, after its loop
footer_end(g, config) ==
    Let(LAMBDA g1 : indent(g1, <<"@enduml">>),
        IF config.epilog # "" THEN indent(g, <<config.epilog \o "\n">>)
        ELSE g)

\* print_base comparing the text as astor returns it, newline included.
print_base_unstripped(g, base, classname) ==
    Let(LAMBDA expr :
            IF expr # "object" THEN indent(g, <<expr, "<|--", classname>>)
            ELSE g,
        to_source(base))

\* print_classinfo: one round of the loop over classinfo.bases
print_base(g, base, classname) ==
    Let(LAMBDA expr :
            \* ignore base if 'object'
            IF expr # "object" THEN indent(g, <<expr, "<|--", classname>>)
            ELSE g,
        RStrip(to_source(base)))

RECURSIVE print_bases(_, _, _, _)
\* print_classinfo: the loop over classinfo.bases, from bases[i] on
print_bases(g, bases, classname, i) ==
    IF i > Len(bases) THEN g
    ELSE Let(LAMBDA g1 : print_bases(g1, bases, classname, i + 1),
             print_base(g, bases[i], classname))

RECURSIVE print_classvars(_, _, _)
\* print_classinfo: the loop over classinfo.classvars, from list[i] on
print_classvars(g, list, i) ==
    IF i > Len(list) THEN g
    ELSE Let(LAMBDA g1 : print_classvars(g1, list, i + 1),
             indent(g, <<TAB \o "{static}", visibility(list[i]) \o list[i]>>))

RECURSIVE print_members(_, _, _)
\* print_classinfo: the loop over classinfo.members, from list[i] on
print_members(g, list, i) ==
    IF i > Len(list) THEN g
    ELSE Let(LAMBDA g1 : print_members(g1, list, i + 1),
             indent(g, <<TAB \o visibility(list[i]) \o list[i]>>))

\* method_line with the parameter list left out.
method_line_bare(m) == TAB \o visibility(m.name) \o m.name \o "()"

\* The text of one method line: TAB + "{0}{1}({2})".format(...)
method_line(m) ==
    TAB \o visibility(m.name) \o m.name
        \o "(" \o RStrip(args_to_source(m.args)) \o ")"

RECURSIVE print_methods(_, _, _)
\* print_classinfo: the loop over classinfo.methods, from list[i] on
print_methods(g, list, i) ==
    IF i > Len(list) THEN g
    ELSE Let(LAMBDA g1 : print_methods(g1, list, i + 1),
             indent(g, <<method_line(list[i])>>))

\* print_classinfo with the loop over the members ahead of the loop over
\* the class variables.
print_classinfo_members_first(g, ci) ==
    Let(LAMBDA g1 :
    Let(LAMBDA g2 :
    Let(LAMBDA g3 :
    Let(LAMBDA g4 :
    Let(LAMBDA g5 : indent(g5, <<"}\n">>),
        print_methods(g4, ci.methods, 1)),
        print_classvars(g3, ci.classvars, 1)),
        print_members(g2, ci.members, 1)),
        indent(g1, <<"class", ci.classname, "{">>)),
        print_bases(g, ci.bases, ci.classname, 1))

\* PUML_Generator.print_classinfo
print_classinfo(g, ci) ==
    Let(LAMBDA g1 :
    Let(LAMBDA g2 :
    Let(LAMBDA g3 :
    Let(LAMBDA g4 :
    Let(LAMBDA g5 : indent(g5, <<"}\n">>),
        print_methods(g4, ci.methods, 1)),
        print_members(g3, ci.members, 1)),
        print_classvars(g2, ci.classvars, 1)),
        indent(g1, <<"class", ci.classname, "{">>)),
        print_bases(g, ci.bases, ci.classname, 1))

-----------------------------------------------------------------------------
(* The run: __main__ (lines 291-322) and the visitor's traversal.          *)

\* The generator fields the operators above work on.
gen == [namespaces |-> namespaces, dest |-> dest]

\* A call of the visitor in progress: the handler, its node, the children
\* it has still to visit and, for visit_ClassDef, its local prev_classinfo.
Frame(fn, node, prev) ==
    [fn |-> fn, node |-> node, todo |-> node.body, prev_classinfo |-> prev]

top == frames[Len(frames)]

\* The node the innermost call visits next.
child == Head(top.todo)

\* The call stack once the innermost call has taken `child` from its list.
advanced == [frames EXCEPT ![Len(frames)].todo = Tail(@)]

Visiting(type) ==
    /\ pc = "visit"
    /\ frames # <<>>
    /\ top.todo # <<>>
    /\ child.type = type

Returning(fn) ==
    /\ pc = "visit"
    /\ frames # <<>>
    /\ top.todo = <<>>
    /\ top.fn = fn

popped == SubSeq(frames, 1, Len(frames) - 1)

\* gen.header() (line 310), then the first iteration of the file loop
\* (py_file has nargs='+': the list is never empty).
Header ==
    /\ pc = "header"
    /\ dest' = header(gen, cl_args.config).dest
    /\ pc' = "start_file"
    /\ fileIdx' = 1
    /\ UNCHANGED <<cl_args, stdout, namespaces, sourcename, classinfo,
                   constructor, frames>>

\* gen.start_file(srcfile) (line 312)
StartFile ==
    /\ pc = "start_file"
    /\ sourcename' = cl_args.py_file[fileIdx].name
    /\ \E g \in {start_file(gen, cl_args.py_file[fileIdx].name, cl_args.root)} :
           /\ namespaces' = g.namespaces
           /\ dest' = g.dest
    /\ pc' = "parse"
    /\ UNCHANGED <<cl_args, stdout, fileIdx, classinfo, constructor, frames>>

\* The except clause (lines 324-327).  The first print writes its text
\* without a newline.  The argument of the second reads the attribute
\* `name` of cl_args.py_file, which is a list (nargs='+') and has no such
\* attribute: AttributeError, before anything more is printed, and nothing
\* catches it.
except_SyntaxError(out, see) ==
    [stdout |-> out \o "Syntax error in ", pc |-> "AttributeError"]

\* ast.parse(src.read()) and the call visitor.visit(tree) (lines 314-316):
\* the Module node has no handler, so generic_visit walks its body.  A
\* SyntaxError of ast.parse passes to the except clause.
Parse ==
    /\ pc = "parse"
    /\ IF cl_args.py_file[fileIdx].tree.type # "SyntaxError"
       THEN /\ frames' = <<Frame("generic_visit",
                                  cl_args.py_file[fileIdx].tree, None)>>
            /\ pc' = "visit"
            /\ UNCHANGED stdout
       ELSE /\ \E h \in {except_SyntaxError(stdout,
                                              cl_args.py_file[fileIdx].tree)} :
                   /\ stdout' = h.stdout
                   /\ pc' = h.pc
            /\ UNCHANGED frames
    /\ UNCHANGED <<cl_args, fileIdx, namespaces, sourcename, dest, classinfo,
                   constructor>>

\* visit_ClassDef up to its loop over node.body (lines 111-115)
visit_ClassDef ==
    /\ Visiting("ClassDef")
    /\ classinfo' = ClassInfo(child)
    /\ frames' = Append(advanced, Frame("visit_ClassDef", child, classinfo))
    /\ UNCHANGED <<cl_args, stdout, pc, fileIdx, namespaces, sourcename, dest,
                   constructor>>

\* visit_ClassDef_end with a single slot for the open class: nothing to
\* restore.
visit_ClassDef_end_forget ==
    /\ Returning("visit_ClassDef")
    /\ dest' = print_classinfo(gen, classinfo).dest
    /\ classinfo' = None
    /\ frames' = popped
    /\ UNCHANGED <<cl_args, stdout, pc, fileIdx, namespaces, sourcename,
                   constructor>>

\* visit_ClassDef after its loop (lines 118-122)
visit_ClassDef_end ==
    /\ Returning("visit_ClassDef")
    /\ dest' = print_classinfo(gen, classinfo).dest
    /\ classinfo' = top.prev_classinfo
    /\ frames' = popped
    /\ UNCHANGED <<cl_args, stdout, pc, fileIdx, namespaces, sourcename,
                   constructor>>

\* visit_FunctionDef (lines 124-134); for a constructor, up to its loop over
\* node.body
visit_FunctionDef ==
    /\ Visiting("FunctionDef")
    /\ IF classinfo # None
       THEN IF child.name = "__init__"
            THEN /\ constructor' = TRUE
                 /\ frames' = Append(advanced,
                                     Frame("visit_FunctionDef", child, None))
                 /\ UNCHANGED classinfo
            ELSE /\ classinfo' = add_method(classinfo, child)
                 /\ frames' = advanced
                 /\ UNCHANGED constructor
       ELSE /\ frames' = advanced
            /\ UNCHANGED <<classinfo, constructor>>
    /\ UNCHANGED <<cl_args, stdout, pc, fileIdx, namespaces, sourcename, dest>>

\* visit_FunctionDef_end that leaves constructor mode on.
visit_FunctionDef_end_keep ==
    /\ Returning("visit_FunctionDef")
    /\ classinfo' = add_method(classinfo, top.node)
    /\ frames' = popped
    /\ UNCHANGED <<cl_args, stdout, pc, fileIdx, namespaces, sourcename,
                   dest, constructor>>

\* visit_FunctionDef for a constructor, after its loop (lines 133-134)
visit_FunctionDef_end ==
    /\ Returning("visit_FunctionDef")
    /\ constructor' = FALSE
    /\ classinfo' = add_method(classinfo, top.node)
    /\ frames' = popped
    /\ UNCHANGED <<cl_args, stdout, pc, fileIdx, namespaces, sourcename, dest>>

\* The self attributes among the targets (lines 140-145).
is_self_attr(target) ==
    /\ target.type = "Attribute"
    /\ target.value[1].type = "Name"
    /\ target.value[1].id = "self"

self_attrs(targets) == SelectSeq(targets, is_self_attr)

\* The plain names among the targets (lines 149-152).
is_name(target) == target.type = "Name"

plain_names(targets) == SelectSeq(targets, is_name)

RECURSIVE add_members(_, _, _)
\* add_member for each of the targets, from targets[i] on
add_members(ci, targets, i) ==
    IF i > Len(targets) THEN ci
    ELSE Let(LAMBDA ci1 : add_members(ci1, targets, i + 1),
             add_member(ci, targets[i].attr))

RECURSIVE add_classvars(_, _, _)
\* add_classvar for each of the targets, from targets[i] on
add_classvars(ci, targets, i) ==
    IF i > Len(targets) THEN ci
    ELSE Let(LAMBDA ci1 : add_classvars(ci1, targets, i + 1),
             add_classvar(ci, targets[i].id))

\* visit_Assign (lines 136-152)
visit_Assign ==
    /\ Visiting("Assign")
    /\ classinfo' =
         IF constructor
         THEN add_members(classinfo, self_attrs(child.targets), 1)
         ELSE IF classinfo # None
         THEN add_classvars(classinfo, plain_names(child.targets), 1)
         ELSE classinfo
    /\ frames' = advanced
    /\ UNCHANGED <<cl_args, stdout, pc, fileIdx, namespaces, sourcename, dest,
                   constructor>>

\* generic_visit that passes over the node without visiting its children.
generic_visit_shallow ==
    /\ pc = "visit"
    /\ frames # <<>>
    /\ top.todo # <<>>
    /\ child.type \notin {"ClassDef", "FunctionDef", "Assign"}
    /\ frames' = advanced
    /\ UNCHANGED <<cl_args, stdout, pc, fileIdx, namespaces, sourcename,
                   dest, classinfo, constructor>>

\* ast.NodeVisitor.generic_visit for a node without a handler: visit its
\* children.
generic_visit ==
    /\ pc = "visit"
    /\ frames # <<>>
    /\ top.todo # <<>>
    /\ child.type \notin {"ClassDef", "FunctionDef", "Assign"}
    /\ frames' = Append(advanced, Frame("generic_visit", child, None))
    /\ UNCHANGED <<cl_args, stdout, pc, fileIdx, namespaces, sourcename, dest,
                   classinfo, constructor>>

\* generic_visit returns; when it was the Module's, visitor.visit(tree)
\* returns to the main loop.
generic_visit_end ==
    /\ Returning("generic_visit")
    /\ frames' = popped
    /\ pc' = IF popped = <<>> THEN "end_file" ELSE pc
    /\ UNCHANGED <<cl_args, stdout, fileIdx, namespaces, sourcename, dest,
                   classinfo, constructor>>

\* gen.end_file(srcfile) (line 317) and the step of the file loop.
EndFile ==
    /\ pc = "end_file"
    /\ sourcename' = ""
    /\ IF fileIdx < Len(cl_args.py_file)
       THEN fileIdx' = fileIdx + 1 /\ pc' = "start_file"
       ELSE fileIdx' = fileIdx /\ pc' = "footer"
    /\ UNCHANGED <<cl_args, stdout, namespaces, dest, classinfo, constructor,
                   frames>>

\* footer's loop closing one namespace too few.
footer_pop_short(g) == pop_ns(g, depth(g) - 1)

\* One round of footer's loop `while self.namespaces` (lines 226-227)
footer_pop(g) == pop_ns(g, depth(g))

FooterLoop ==
    /\ pc = "footer"
    /\ namespaces # <<>>
    /\ \E g \in {footer_pop(gen)} :
           /\ namespaces' = g.namespaces
           /\ dest' = g.dest
    /\ UNCHANGED <<cl_args, stdout, pc, fileIdx, sourcename, classinfo,
                   constructor, frames>>

\* footer once its loop has ended (lines 229-236); the output is closed.
FooterEnd ==
    /\ pc = "footer"
    /\ namespaces = <<>>
    /\ dest' = footer_end(gen, cl_args.config).dest
    /\ pc' = "done"
    /\ UNCHANGED <<cl_args, stdout, fileIdx, namespaces, sourcename, classinfo,
                   constructor, frames>>

Next ==
    \/ Header
    \/ StartFile
    \/ Parse
    \/ visit_ClassDef
    \/ visit_ClassDef_end
    \/ visit_FunctionDef
    \/ visit_FunctionDef_end
    \/ visit_Assign
    \/ generic_visit
    \/ generic_visit_end
    \/ EndFile
    \/ FooterLoop
    \/ FooterEnd

-----------------------------------------------------------------------------
(* Inputs.                                                                 *)

\* Longest list of source files on a command line.
MaxFiles == 3

\* The [puml] section: prolog and epilog, "" when the option is absent.
NoConfig == [prolog |-> "", epilog |-> ""]
SomeConfig == [prolog |-> "skinparam monochrome true", epilog |-> "hide empty members"]

SelfAttr(attr) == Assign(<<Attribute(Name("self"), attr)>>)

\* class Animal: pass
Animal == ClassDef("Animal", <<>>, <<Pass>>)

\* class Dog(Animal): species = ...; __init__ sets self.name and self.age;
\* def bark(self)
Dog ==
    ClassDef("Dog", <<Name("Animal")>>,
             <<Assign(<<Name("species")>>),
               FunctionDef("__init__", <<"self", "name", "age">>,
                           <<SelfAttr("name"), SelfAttr("age")>>),
               FunctionDef("bark", <<"self">>, <<Pass>>)>>)

\* class Outer: class Inner: pass
OuterInner == ClassDef("Outer", <<>>, <<ClassDef("Inner", <<>>, <<Pass>>)>>)

\* The source files of the namespace runs and what each parses to.
NSNames == {"a/b/X.py", "a/c/Y.py", "a/b/d/Z.py", "a/M.py", "e/W.py"}

TreeOf(name) ==
    IF name = "a/b/X.py" THEN Module(<<Animal, Dog>>)
    ELSE IF name = "a/c/Y.py" THEN Module(<<ClassDef("Y", <<Name("object")>>, <<Pass>>)>>)
    ELSE IF name = "a/b/d/Z.py" THEN Module(<<OuterInner>>)
    ELSE IF name = "a/M.py" THEN Module(<<If(<<Pass>>), FunctionDef("main", <<>>, <<Pass>>)>>)
    ELSE Module(<<>>)

File(name) == [name |-> name, tree |-> TreeOf(name)]

RECURSIVE SeqsUpTo(_, _)
\* The sequences over S of length 1..n.
SeqsUpTo(S, n) ==
    IF n = 0 THEN {}
    ELSE LET shorter == SeqsUpTo(S, n - 1)
         IN  {<<x>> : x \in S} \cup shorter
             \cup {Append(q, x) : q \in shorter, x \in S}

\* Command lines of the namespace runs: without a root and with root a,
\* any list of the files; and the root that is the parent of a.
NSRuns ==
    {[root |-> r, config |-> NoConfig,
      py_file |-> [i \in 1..Len(names) |-> File(names[i])]] :
        r \in {"", "a"}, names \in SeqsUpTo(NSNames, MaxFiles)}
    \cup
    {[root |-> Cwd, config |-> SomeConfig,
      py_file |-> <<File("a/b/X.py"), File("a/c/Y.py")>>]}

\* The state after the constructors of PUML_Generator and TreeVisitor.
Constructed(run) ==
    /\ cl_args = run
    /\ pc = "header"
    /\ fileIdx = 0
    /\ namespaces = <<>>
    /\ sourcename = ""
    /\ dest = <<>>
    /\ stdout = ""
    /\ classinfo = None
    /\ constructor = FALSE
    /\ frames = <<>>

InitNS == \E run \in NSRuns : Constructed(run)

SpecNS == InitNS /\ [][Next]_vars

\* The program is one sequential thread that runs until it ends.
FairNS == SpecNS /\ WF_vars(Next)

\* Longest base list of a class.
MaxBases == 2

\* Longest run of statements in a constructor or class body.
MaxStmts == 3

\* Deepest nesting of a class inside class bodies.
MaxDepth == 2

\* The sequences over S of length 0..n.
SeqsTo(S, n) == {<<>>} \cup SeqsUpTo(S, n)

\* Base expressions: object, a plain name, object reached through its
\* module, a subscripted generic.
BaseExprs ==
    {Name("object"), Name("Animal"), Attribute(Name("builtins"), "object"),
     Subscript(Name("Generic"), Name("T"))}

\* class Dog(<bases>): pass
BaseTrees ==
    {Module(<<ClassDef("Dog", bases, <<Pass>>)>>) :
        bases \in SeqsTo(BaseExprs, MaxBases)}

\* Statements of a constructor body: assignments to two attributes of self,
\* to an attribute of another object and to a local variable.
InitStmts ==
    {SelfAttr("name"), SelfAttr("age"),
     Assign(<<Attribute(Name("other"), "name")>>), Assign(<<Name("tmp")>>)}

\* class Point: def __init__(self): <stmts>
InitTrees ==
    {Module(<<ClassDef("Point", <<>>,
                       <<FunctionDef("__init__", <<"self">>, stmts)>>)>>) :
        stmts \in SeqsTo(InitStmts, MaxStmts)}

\* Statements of a class body: x = ..., y = ..., x = y = ..., a method.
BodyStmts ==
    {Assign(<<Name("x")>>), Assign(<<Name("y")>>),
     Assign(<<Name("x"), Name("y")>>),
     FunctionDef("_get", <<"self">>, <<Pass>>)}

\* class Conf: <stmts>
BodyTrees ==
    {Module(<<ClassDef("Conf", <<>>, stmts)>>) :
        stmts \in SeqsUpTo(BodyStmts, MaxStmts)}

\* Names of the nesting level d: class Cd, variables vd and wd, method md,
\* attribute ad.
Digit(d) == SubSeq("0123456789", d + 1, d + 1)

\* Bodies of a class that holds no class.
LeafBodies(d) ==
    {<<Pass>>,
     <<Assign(<<Name("v" \o Digit(d))>>)>>,
     <<FunctionDef("__init__", <<"self">>, <<SelfAttr("a" \o Digit(d))>>),
       FunctionDef("m" \o Digit(d), <<"self">>, <<Pass>>)>>}

\* What precedes and what follows a nested class in the body of level d.
Before(d) == {<<>>, <<Assign(<<Name("v" \o Digit(d))>>)>>}
After(d) ==
    {<<>>,
     <<Assign(<<Name("w" \o Digit(d))>>)>>,
     <<FunctionDef("m" \o Digit(d), <<"self">>, <<Pass>>)>>,
     <<FunctionDef("__init__", <<"self">>, <<SelfAttr("a" \o Digit(d))>>)>>}

RECURSIVE NestedClasses(_)
\* The classes of level d: without a nested class, or with one class of
\* level d + 1 between statements of their own.
NestedClasses(d) ==
    {ClassDef("C" \o Digit(d), <<>>, body) : body \in LeafBodies(d)}
    \cup
    (IF d >= MaxDepth THEN {}
     ELSE {ClassDef("C" \o Digit(d), <<>>, pre \o <<inner>> \o post) :
              pre \in Before(d), inner \in NestedClasses(d + 1),
              post \in After(d)})

NestTrees == {Module(<<c>>) : c \in NestedClasses(0)}

\* if ...: class Cond with a conditional assignment, two sibling classes
\* and a trailing assignment; then a module-level function.
CondTree ==
    Module(<<If(<<ClassDef("Cond", <<Name("Base")>>,
                           <<If(<<Assign(<<Name("x")>>)>>),
                             ClassDef("A", <<>>, <<Pass>>),
                             ClassDef("B", <<>>, <<Assign(<<Name("b")>>)>>),
                             Assign(<<Name("y")>>)>>)>>),
             FunctionDef("main", <<>>, <<Pass>>)>>)

\* class Account(object) with a private and a public name of each kind:
\* _count and rate, self._id and self.owner, _audit and close.
Account ==
    ClassDef("Account", <<Name("object")>>,
             <<Assign(<<Name("_count")>>),
               Assign(<<Name("rate")>>),
               FunctionDef("__init__", <<"self", "owner">>,
                           <<SelfAttr("_id"), SelfAttr("owner")>>),
               FunctionDef("_audit", <<"self">>, <<Pass>>),
               FunctionDef("close", <<"self", "when">>, <<Pass>>)>>)

ClassTrees ==
    BaseTrees \cup InitTrees \cup BodyTrees \cup NestTrees
    \cup {Module(<<Animal, Dog>>), CondTree, Module(<<Account>>)}

\* Command lines of the class runs: one file under root a.
ClsRuns ==
    {[root |-> "a", config |-> NoConfig,
      py_file |-> <<[name |-> "a/b/X.py", tree |-> t]>>] : t \in ClassTrees}

InitCls == \E run \in ClsRuns : Constructed(run)

SpecCls == InitCls /\ [][Next]_vars

\* class Widget whose constructor defines a class Part with a constructor
\* of its own before it sets self.size.
Widget ==
    ClassDef("Widget", <<>>,
             <<FunctionDef("__init__", <<"self">>,
                           <<ClassDef("Part", <<>>,
                                      <<FunctionDef("__init__", <<"self">>,
                                                    <<SelfAttr("id")>>)>>),
                             SelfAttr("size")>>)>>)

\* The source files of the runs with a file that is no Python, and what
\* ast.parse makes of each.
ErrNames == {"a/b/X.py", "a/M.py", "a/b/N.py", "a/c/Bad.py"}

ErrFile(name) ==
    [name |-> name,
     tree |-> IF name = "a/c/Bad.py" THEN SyntaxError(2, 7, "class :\n")
              ELSE IF name = "a/b/N.py" THEN Module(<<Widget>>)
              ELSE TreeOf(name)]

\* Command lines of these runs: any list of the files, under root a.
ErrRuns ==
    {[root |-> "a", config |-> NoConfig,
      py_file |-> [i \in 1..Len(names) |-> ErrFile(names[i])]] :
        names \in SeqsUpTo(ErrNames, MaxFiles)}

InitErr == \E run \in ErrRuns : Constructed(run)

SpecErr == InitErr /\ [][Next]_vars

\* Longest run of statements in a constructor that holds definitions.
MaxNested == 2

\* def helper(): tmp = ...
Helper == FunctionDef("helper", <<>>, <<Assign(<<Name("tmp")>>)>>)

\* def __init__(self): self.inner = ..., inside a constructor
InnerInit == FunctionDef("__init__", <<"self">>, <<SelfAttr("inner")>>)

\* class Part: kind = ...
PartVar == ClassDef("Part", <<>>, <<Assign(<<Name("kind")>>)>>)

\* class Part: def __init__(self): self.id = ...
PartInit ==
    ClassDef("Part", <<>>,
             <<FunctionDef("__init__", <<"self">>, <<SelfAttr("id")>>)>>)

\* self.p, self.q = ...
TupleSelf ==
    Assign(<<Tuple(<<Attribute(Name("self"), "p"),
                     Attribute(Name("self"), "q")>>)>>)

\* self.p = tmp = ...
ChainSelf == Assign(<<Attribute(Name("self"), "p"), Name("tmp")>>)

\* Statements of a constructor body: assignments, a conditional
\* assignment, and definitions of functions and classes.
CtorStmts ==
    {SelfAttr("size"), Assign(<<Name("tmp")>>), If(<<SelfAttr("cond")>>),
     TupleSelf, ChainSelf, Helper, InnerInit, PartVar, PartInit}

\* class K: [def first(self)]; def __init__(self): <stmts>; def last(self)
CtorTrees ==
    {Module(<<ClassDef("K", <<>>,
                       pre \o <<FunctionDef("__init__", <<"self">>, stmts),
                                FunctionDef("last", <<"self">>, <<Pass>>)>>)>>) :
        pre \in {<<>>, <<FunctionDef("first", <<"self">>, <<Pass>>)>>},
        stmts \in SeqsUpTo(CtorStmts, MaxNested)}

\* Classes defined in a module-level function, in a method, in a
\* conditional inside a method, in a conditional of a class body and in a
\* conditional at module level.
FnTree ==
    Module(<<FunctionDef("factory", <<>>,
                         <<ClassDef("Local", <<>>, <<Pass>>)>>),
             ClassDef("Host", <<>>,
                      <<FunctionDef("make", <<"self">>,
                                    <<ClassDef("InMethod", <<>>, <<Pass>>),
                                      If(<<ClassDef("InMethodIf", <<>>,
                                                    <<Pass>>)>>)>>),
                        If(<<ClassDef("InIf", <<>>, <<Pass>>)>>)>>),
             If(<<ClassDef("Top", <<>>, <<Pass>>)>>)>>)

\* g = ...; g1, g2 = ... at module level; class P: a, b = ...; c = d = ...;
\* if ...: e, f = ...
TupleTree ==
    Module(<<Assign(<<Name("g")>>),
             Assign(<<Tuple(<<Name("g1"), Name("g2")>>)>>),
             ClassDef("P", <<>>,
                      <<Assign(<<Tuple(<<Name("a"), Name("b")>>)>>),
                        Assign(<<Name("c"), Name("d")>>),
                        If(<<Assign(<<Tuple(<<Name("e"), Name("f")>>)>>)>>)>>)>>)

DefTrees == CtorTrees \cup {FnTree, TupleTree}

\* Command lines of the runs over these trees: one file under root a.
DefRuns ==
    {[root |-> "a", config |-> NoConfig,
      py_file |-> <<[name |-> "a/b/X.py", tree |-> t]>>] : t \in DefTrees}

InitDef == \E run \in DefRuns : Constructed(run)

SpecDef == InitDef /\ [][Next]_vars

-----------------------------------------------------------------------------
(* Reading the output and the input.                                       *)

IsNsStart(line) == StartsWith(line.text, "namespace ")
IsNsEnd(line) == line.text = "}"
IsClassEnd(line) == line.text = "}\n"

Count(lines, P(_)) == Cardinality({i \in 1..Len(lines) : P(lines[i])})

NsStartLine(tabs, name) == [tabs |-> tabs, text |-> "namespace " \o name \o " {"]
NsEndLine(tabs) == [tabs |-> tabs, text |-> "}"]

\* The file the main loop is at.
srcfile == cl_args.py_file[fileIdx]

\* Length of the longest common prefix of two sequences.
LCP(a, b) ==
    CHOOSE k \in 0..Len(a) :
        /\ k <= Len(b)
        /\ SubSeq(a, 1, k) = SubSeq(b, 1, k)
        /\ (k = Len(a) \/ k = Len(b) \/ a[k + 1] # b[k + 1])

\* A file name without its extension: the text before its last dot, when
\* something other than dots precedes that dot.
Stem(name) ==
    LET dots == {i \in 1..Len(name) :
                    /\ Char(name, i) = "."
                    /\ \E k \in 1..(i - 1) : Char(name, k) # "."}
    IN  IF dots = {} THEN name
        ELSE SubSeq(name, 1, (CHOOSE i \in dots : \A j \in dots : j <= i) - 1)

\* The segments of `path` relative to `root`, the last without extension.
RelativeSegments(path, root) ==
    LET p == Components(AbsPath(path))
        r == Components(AbsPath(root))
        k == LCP(p, r)
        rel == [i \in 1..(Len(r) - k) |-> ".."] \o SubSeq(p, k + 1, Len(p))
    IN  [i \in 1..Len(rel) |-> IF i = Len(rel) THEN Stem(rel[i]) ELSE rel[i]]

\* The lines written since the last class block.
SinceLastClass ==
    LET ends == {i \in 1..Len(dest) : IsClassEnd(dest[i])}
        last == IF ends = {} THEN 0
                ELSE CHOOSE i \in ends : \A j \in ends : j <= i
    IN  SubSeq(dest, last + 1, Len(dest))

-----------------------------------------------------------------------------
(* Namespaces.                                                             *)

\* C1: with a root, once start_file(path) has returned and until the next
\* call, the namespace stack is the segments of path relative to the root,
\* the extension removed, also for a path outside the root.
C1_StackIsRelativePath ==
    (cl_args.root # "" /\ pc \in {"parse", "visit", "end_file"})
        => namespaces = RelativeSegments(srcfile.name, cl_args.root)

C1_Witness ==
    /\ pc = "parse"
    /\ cl_args.root = "a"
    /\ fileIdx = 3
    /\ cl_args.py_file[2].name = "a/b/d/Z.py"
    /\ srcfile.name = "e/W.py"
    /\ namespaces = <<"..", "e", "W">>

\* As many end markers as start markers, no end marker before its start
\* marker, and nothing left open.
NsBalanced ==
    /\ Count(dest, IsNsStart) = Count(dest, IsNsEnd)
    /\ \A k \in 1..Len(dest) :
          Count(SubSeq(dest, 1, k), IsNsEnd)
              <= Count(SubSeq(dest, 1, k), IsNsStart)
    /\ namespaces = <<>>

\* C2: every run reaches the end of footer(), and there as many namespace
\* end markers as start markers have been written and the stack is empty.
C2_BalancedAndTerminates ==
    /\ <>(pc = "done")
    /\ [](pc = "done" => NsBalanced)

C2_Witness ==
    /\ pc = "done"
    /\ Len(cl_args.py_file) = 3
    /\ Count(dest, IsNsStart) >= 6
    /\ NsBalanced

\* The lines start_file writes to go from stack `cur` to stack `tgt`: the
\* namespaces above the common prefix closed innermost first, then the
\* target's segments above it opened in order.
MinimalTransition(cur, tgt) ==
    LET n == LCP(cur, tgt)
    IN  [i \in 1..(Len(cur) - n) |-> NsEndLine(Len(cur) - i)]
        \o [j \in 1..(Len(tgt) - n) |-> NsStartLine(n + j - 1, tgt[n + j])]

\* C3: a start_file call writes exactly the minimal transition from the
\* current stack to the file's segments and leaves the common prefix alone.
C3_MinimalTransition ==
    [][(pc = "start_file" /\ cl_args.root # "")
        => LET tgt == RelativeSegments(srcfile.name, cl_args.root)
               n == LCP(namespaces, tgt)
           IN  /\ dest' = dest \o MinimalTransition(namespaces, tgt)
               /\ SubSeq(namespaces', 1, n) = SubSeq(namespaces, 1, n)
               /\ namespaces' = tgt]_vars

C3_Witness ==
    /\ pc = "parse"
    /\ cl_args.root = "a"
    /\ fileIdx = 2
    /\ cl_args.py_file[1].name = "a/b/X.py"
    /\ srcfile.name = "a/b/d/Z.py"
    /\ SinceLastClass = <<NsEndLine(1), NsStartLine(1, "d"), NsStartLine(2, "Z")>>

\* The run over a/b/X.py then a/c/Y.py, when the second file has started.
Scenario(root) ==
    /\ cl_args.root = root
    /\ Len(cl_args.py_file) = 2
    /\ cl_args.py_file[1].name = "a/b/X.py"
    /\ cl_args.py_file[2].name = "a/c/Y.py"
    /\ fileIdx = 2
    /\ pc = "parse"

\* C4 as stated: under root a, one namespace (b) is closed and one (c) is
\* opened between the files and namespace a stays open.
C4_OneCloseOneOpen ==
    Scenario("a") =>
        /\ Count(SinceLastClass, IsNsEnd) = 1
        /\ Count(SinceLastClass, IsNsStart) = 1
        /\ InList("a", namespaces)

\* C4, amended: under root a the file's own name is a namespace and a is
\* none, so X then b are closed and c then Y are opened; under the parent
\* of a as root the same lines are written one level deeper and namespace a
\* stays open.
C4_TwoClosesTwoOpens ==
    /\ Scenario("a") =>
        /\ SinceLastClass = <<NsEndLine(1), NsEndLine(0),
                              NsStartLine(0, "c"), NsStartLine(1, "Y")>>
        /\ namespaces = <<"c", "Y">>
    /\ Scenario(Cwd) =>
        /\ SinceLastClass = <<NsEndLine(2), NsEndLine(1),
                              NsStartLine(1, "c"), NsStartLine(2, "Y")>>
        /\ namespaces = <<"a", "c", "Y">>
        /\ Count(dest, LAMBDA l : l = NsStartLine(0, "a")) = 1

C4_Witness ==
    /\ Scenario(Cwd)
    /\ namespaces = <<"a", "c", "Y">>
    /\ Count(SinceLastClass, IsNsEnd) = 2

\* C5: without a root no namespace marker is ever written, the stack stays
\* empty and every line, class blocks included, has no indentation.
C5_NoRootNoNamespaces ==
    cl_args.root = "" =>
        /\ namespaces = <<>>
        /\ \A i \in 1..Len(dest) :
            /\ ~IsNsStart(dest[i])
            /\ ~IsNsEnd(dest[i])
            /\ dest[i].tabs = 0

C5_Witness ==
    /\ cl_args.root = ""
    /\ pc = "done"
    /\ Len(cl_args.py_file) = 2
    /\ Count(dest, IsClassEnd) >= 3

-----------------------------------------------------------------------------
(* Reading class blocks and syntax trees.                                  *)

Texts(lines) == [i \in 1..Len(lines) |-> lines[i].text]

HasLine(text) == \E i \in 1..Len(dest) : dest[i].text = text

Contains(s, sub) ==
    \E i \in 1..(Len(s) - Len(sub) + 1) : SubSeq(s, i, i + Len(sub) - 1) = sub

IsInheritance(line) == Contains(line.text, " <|-- ")
IsClassHeader(line) == StartsWith(line.text, "class ")
IsBlockLine(line) ==
    ~IsNsStart(line) /\ ~IsNsEnd(line) /\ ~StartsWith(line.text, "@")

NoDup(seq) == \A i, j \in 1..Len(seq) : i # j => seq[i] # seq[j]

\* The k-th smallest element of a set of numbers.
Pick(S, k) == CHOOSE i \in S : Cardinality({j \in S : j < i}) = k - 1

\* seq with every element kept at its first occurrence only.
FirstOccurrences(seq) ==
    LET first == {i \in 1..Len(seq) : \A j \in 1..(i - 1) : seq[j] # seq[i]}
    IN  [k \in 1..Cardinality(first) |-> seq[Pick(first, k)]]

RECURSIVE OwnStatements(_)
\* The statements of a body, those inside conditionals included, those of
\* nested classes and functions not.
OwnStatements(body) ==
    IF body = <<>> THEN <<>>
    ELSE (IF body[1].type = "If" THEN OwnStatements(body[1].body)
          ELSE <<body[1]>>)
         \o OwnStatements(Tail(body))

RECURSIVE EmissionOrder(_)
\* The classes defined in a body, each after the classes nested in it.
EmissionOrder(body) ==
    IF body = <<>> THEN <<>>
    ELSE (IF body[1].type = "ClassDef"
          THEN EmissionOrder(body[1].body) \o <<body[1]>>
          ELSE IF body[1].type = "If" THEN EmissionOrder(body[1].body)
          ELSE <<>>)
         \o EmissionOrder(Tail(body))

RECURSIVE TargetsOf(_)
\* The assignment targets of a list of statements, in order.
TargetsOf(stmts) ==
    IF stmts = <<>> THEN <<>>
    ELSE (IF stmts[1].type = "Assign" THEN stmts[1].targets ELSE <<>>)
         \o TargetsOf(Tail(stmts))

IsFunction(stmt) == stmt.type = "FunctionDef"
IsConstructor(stmt) == stmt.type = "FunctionDef" /\ stmt.name = "__init__"
IsPlainName(t) == t.type = "Name"
IsSelfAttribute(t) ==
    t.type = "Attribute" /\ t.value = <<Name("self")>>

RECURSIVE BodiesOf(_)
BodiesOf(defs) ==
    IF defs = <<>> THEN <<>>
    ELSE OwnStatements(defs[1].body) \o BodiesOf(Tail(defs))

\* The names a class body assigns directly.
OwnClassVars(class) ==
    LET names == SelectSeq(TargetsOf(OwnStatements(class.body)), IsPlainName)
    IN  [i \in 1..Len(names) |-> names[i].id]

\* The methods a class body defines.
OwnMethods(class) == SelectSeq(OwnStatements(class.body), IsFunction)

\* The attributes of self the class's constructor assigns, per assignment.
SelfNames(class) ==
    LET inits == SelectSeq(OwnStatements(class.body), IsConstructor)
        attrs == SelectSeq(TargetsOf(BodiesOf(inits)), IsSelfAttribute)
    IN  [i \in 1..Len(attrs) |-> attrs[i].attr]

\* The tree of the file being processed.
tree == srcfile.tree

FileDone == pc \in {"end_file", "footer", "done"}

-----------------------------------------------------------------------------
(* Class records and class blocks.                                         *)

RECURSIVE InheritanceOf(_, _)
\* The inheritance lines of a class: one per base from the i-th on whose
\* text is not `object`.
InheritanceOf(class, i) ==
    IF i > Len(class.bases) THEN <<>>
    ELSE (IF ExprSource(class.bases[i]) = "object" THEN <<>>
          ELSE <<ExprSource(class.bases[i]) \o " <|-- " \o class.name>>)
         \o InheritanceOf(class, i + 1)

RECURSIVE InheritanceOfAll(_)
InheritanceOfAll(classes) ==
    IF classes = <<>> THEN <<>>
    ELSE InheritanceOf(classes[1], 1) \o InheritanceOfAll(Tail(classes))

\* C6: the inheritance lines written for a file are, class by class, one
\* line `<base> <|-- <class>` per base that is not `object`, in
\* declaration order, and no line for a class without such a base.
C6_InheritanceLines ==
    FileDone =>
        Texts(SelectSeq(dest, IsInheritance))
            = InheritanceOfAll(EmissionOrder(tree.body))

C6_Witness ==
    /\ pc = "done"
    /\ tree = Module(<<ClassDef("Dog", <<Name("object"),
                                         Subscript(Name("Generic"), Name("T"))>>,
                                <<Pass>>)>>)
    /\ Texts(SelectSeq(dest, IsInheritance)) = <<"Generic[T] <|-- Dog">>

\* C7: the members of a class record never hold a name twice, and when
\* the class body ends they are the attributes of self the constructor
\* assigned, each at its first occurrence.
C7_MembersUnique ==
    /\ classinfo # None => NoDup(classinfo.members)
    /\ Returning("visit_ClassDef") =>
          classinfo.members = FirstOccurrences(SelfNames(top.node))

C7_Witness ==
    /\ Returning("visit_ClassDef")
    /\ SelfNames(top.node) = <<"name", "age", "name">>
    /\ classinfo.members = <<"name", "age">>

\* C8: the class variables of a class record never hold a name twice.
C8_ClassVarsUnique == classinfo # None => NoDup(classinfo.classvars)

\* C9: when the body of a class ends, its record holds the class
\* variables, members and methods of its own body and nothing of the
\* classes nested in it, statements after a nested class included; and
\* the class blocks are written nested class first.
C9_NestedIsolated ==
    /\ Returning("visit_ClassDef") =>
          classinfo = [classname |-> top.node.name,
                       bases |-> top.node.bases,
                       classvars |-> OwnClassVars(top.node),
                       members |-> FirstOccurrences(SelfNames(top.node)),
                       methods |-> OwnMethods(top.node)]
    /\ FileDone =>
          LET classes == EmissionOrder(tree.body)
          IN  Texts(SelectSeq(dest, IsClassHeader))
                = [i \in 1..Len(classes) |->
                      "class " \o classes[i].name \o " {"]

C9_Witness ==
    /\ Returning("visit_ClassDef")
    /\ top.node.name = "C0"
    /\ Len(EmissionOrder(top.node.body)) = 2
    /\ Texts(SelectSeq(dest, IsClassHeader)) = <<"class C2 {", "class C1 {">>
    /\ classinfo.classvars = <<"v0", "w0">>

\* The run over the file that defines Animal and Dog(Animal).
DogRun == Len(cl_args.py_file) = 1 /\ cl_args.py_file[1].tree = Module(<<Animal, Dog>>)

\* C10 as stated: the output for Dog holds the inheritance line, the
\* static member species, the members name and age and the line +bark().
C10_BarkWithoutParameters ==
    (DogRun /\ pc = "done") =>
        /\ HasLine("Animal <|-- Dog")
        /\ HasLine(TAB \o "{static} +species")
        /\ HasLine(TAB \o "+name")
        /\ HasLine(TAB \o "+age")
        /\ HasLine(TAB \o "+bark()")
        /\ HasLine("class Animal {")

\* C10, amended: the method lines carry the parameter list, so the blocks
\* of Animal and Dog are these lines, bark written as +bark(self).
C10_DogBlock ==
    (DogRun /\ pc = "done") =>
        Texts(SelectSeq(dest, IsBlockLine))
            = <<"class Animal {", "}\n",
                "Animal <|-- Dog", "class Dog {",
                TAB \o "{static} +species",
                TAB \o "+name", TAB \o "+age",
                TAB \o "-__init__(self, name, age)",
                TAB \o "+bark(self)", "}\n">>

C10_Witness ==
    /\ DogRun
    /\ pc = "done"
    /\ HasLine(TAB \o "+bark(self)")
    /\ HasLine("class Animal {")

-----------------------------------------------------------------------------
(* The lines of a class block.                                             *)

\* The visibility symbol of a name.
Sign(name) == IF Char(name, 1) = "_" THEN "-" ELSE "+"

\* The inheritance lines of a class record.
BaseLines(ci) ==
    LET kept == SelectSeq(ci.bases, LAMBDA b : ExprSource(b) # "object")
    IN  [i \in 1..Len(kept) |->
            ExprSource(kept[i]) \o " <|-- " \o ci.classname]

StaticLines(ci) ==
    [i \in 1..Len(ci.classvars) |->
        TAB \o "{static} " \o Sign(ci.classvars[i]) \o ci.classvars[i]]

MemberLines(ci) ==
    [i \in 1..Len(ci.members) |->
        TAB \o Sign(ci.members[i]) \o ci.members[i]]

MethodLines(ci) ==
    [i \in 1..Len(ci.methods) |->
        TAB \o Sign(ci.methods[i].name) \o ci.methods[i].name
            \o "(" \o Join(ci.methods[i].args, ", ") \o ")"]

\* The block of a class record, its inheritance lines first.
BlockOf(ci) ==
    BaseLines(ci) \o <<"class " \o ci.classname \o " {">>
        \o StaticLines(ci) \o MemberLines(ci) \o MethodLines(ci)
        \o <<"}\n">>

\* The last n lines written.
LastLines(n) == SubSeq(dest, Len(dest) - n + 1, Len(dest))

\* C11: when the body of a class ends, the lines of its record are added
\* to the output as one run and nothing else is: the inheritance lines, the
\* header, the class variables, the members and the methods, each list in
\* its order, then the closing brace, all at one indentation.
C11_BlockContiguous ==
    [][Returning("visit_ClassDef")
        => LET n == Len(BlockOf(classinfo))
               added == SubSeq(dest', Len(dest) + 1, Len(dest'))
           IN  /\ Len(dest') = Len(dest) + n
               /\ SubSeq(dest', 1, Len(dest)) = dest
               /\ Texts(added) = BlockOf(classinfo)
               /\ \A i \in 1..n : added[i].tabs = added[1].tabs]_vars

C11_Witness ==
    /\ pc = "end_file"
    /\ tree = Module(<<Account>>)
    /\ Texts(LastLines(9))
         = <<"class Account {",
             TAB \o "{static} -_count", TAB \o "{static} +rate",
             TAB \o "-_id", TAB \o "+owner",
             TAB \o "-__init__(self, owner)", TAB \o "-_audit(self)",
             TAB \o "+close(self, when)">>
            \o <<"}\n">>

\* A line of a class block between its header and its closing brace.
IsMemberLine(line) == StartsWith(line.text, TAB)

\* The text of a member line after the indentation unit and the static
\* mark: the visibility symbol followed by the name.
Signed(line) ==
    LET rest == SubSeq(line.text, Len(TAB) + 1, Len(line.text))
    IN  IF StartsWith(rest, "{static} ")
        THEN SubSeq(rest, Len("{static} ") + 1, Len(rest))
        ELSE rest

\* C12: every class variable, member and method line written carries -
\* when the name begins with an underscore and + otherwise.
C12_VisibilityByName ==
    \A i \in 1..Len(dest) :
        IsMemberLine(dest[i]) =>
            Char(Signed(dest[i]), 1)
                = (IF Char(Signed(dest[i]), 2) = "_" THEN "-" ELSE "+")

C12_Witness ==
    /\ pc = "done"
    /\ tree = Module(<<Account>>)
    /\ HasLine(TAB \o "{static} -_count")
    /\ HasLine(TAB \o "{static} +rate")
    /\ HasLine(TAB \o "-_id")
    /\ HasLine(TAB \o "+owner")
    /\ HasLine(TAB \o "-_audit(self)")
    /\ HasLine(TAB \o "+close(self, when)")

-----------------------------------------------------------------------------
(* Files that cannot be parsed.                                            *)

Unparsable(i) == cl_args.py_file[i].tree.type = "SyntaxError"

\* The positions of a run that no exception has ended.
MainFlow ==
    {"header", "start_file", "parse", "visit", "end_file", "footer", "done"}

\* path:line:column of the parse error of the file at hand.
ErrorPlace ==
    srcfile.name \o ":" \o Digit(srcfile.tree.lineno)
        \o ":" \o Digit(srcfile.tree.offset)

\* C13: a file that cannot be parsed is not traversed and ends the run at
\* that file: no later file is started, no footer is written, the report
\* names the file's path with the line and column of the error, and the
\* report ends without a further exception.
C13_AbortedAndReported ==
    /\ pc \in {"visit", "end_file"} => ~Unparsable(fileIdx)
    /\ pc \in {"footer", "done"} =>
          \A i \in 1..Len(cl_args.py_file) : ~Unparsable(i)
    /\ pc \notin MainFlow =>
          /\ Unparsable(fileIdx)
          /\ \A i \in 1..(fileIdx - 1) : ~Unparsable(i)
          /\ ~HasLine("@enduml")
          /\ Contains(stdout, ErrorPlace)
          /\ pc = "exit"

-----------------------------------------------------------------------------
(* Constructors, assignment targets and definitions inside functions.      *)

\* The definitions whose bodies are being traversed, outermost first.
Scopes == SelectSeq(frames, LAMBDA f : f.fn # "generic_visit")

\* The statement being visited lies in the body of the __init__ of the
\* class that is open, not in a definition inside that body.
InConstructorBody ==
    /\ Len(Scopes) >= 2
    /\ Scopes[Len(Scopes)].fn = "visit_FunctionDef"
    /\ Scopes[Len(Scopes)].node.name = "__init__"
    /\ Scopes[Len(Scopes) - 1].fn = "visit_ClassDef"

\* C14: an assignment is visited in constructor mode exactly when it lies
\* in the body of the __init__ of the open class, whatever definitions
\* precede it there; and constructor mode is off when no function
\* definition is being handled.
C14_ConstructorScoped ==
    /\ Visiting("Assign") => (constructor <=> InConstructorBody)
    /\ (\A i \in 1..Len(frames) : frames[i].fn # "visit_FunctionDef")
          => ~constructor

RECURSIVE Flat(_)
\* The targets of an assignment, every tuple replaced by its elements.
Flat(targets) ==
    IF targets = <<>> THEN <<>>
    ELSE (IF targets[1].type = "Tuple" THEN Flat(targets[1].value)
          ELSE <<targets[1]>>)
         \o Flat(Tail(targets))

Ids(names) == [i \in 1..Len(names) |-> names[i].id]
Attrs(attributes) == [i \in 1..Len(attributes) |-> attributes[i].attr]

\* C15: an assignment registers each of its targets on its own, those of
\* a chain and those inside a tuple alike: in constructor mode every
\* attribute of self among them becomes a member unless it is one, else
\* in a class every plain name among them becomes a class variable, and
\* outside any class nothing is registered.
C15_EachTarget ==
    [][Visiting("Assign")
        => LET each == Flat(child.targets)
           IN  classinfo' =
                 IF constructor
                 THEN [classinfo EXCEPT !.members =
                         FirstOccurrences(
                             @ \o Attrs(SelectSeq(each, IsSelfAttribute)))]
                 ELSE IF classinfo # None
                 THEN [classinfo EXCEPT !.classvars =
                         @ \o Ids(SelectSeq(each, IsPlainName))]
                 ELSE None]_vars

\* C16: when the body of a class ends, the methods of its record are the
\* function definitions of that body in declaration order, the
\* constructor at the place of its declaration.
C16_MethodsInDeclarationOrder ==
    Returning("visit_ClassDef") => classinfo.methods = OwnMethods(top.node)

RECURSIVE AllClasses(_)
\* Every class definition in a body, whatever it lies in.
AllClasses(body) ==
    IF body = <<>> THEN <<>>
    ELSE (IF body[1].type = "ClassDef"
          THEN AllClasses(body[1].body) \o <<body[1]>>
          ELSE AllClasses(body[1].body))
         \o AllClasses(Tail(body))

RECURSIVE Traversed(_, _)
\* The class definitions in a body that lie in no function other than an
\* __init__ inside a class, each after the classes defined inside it.
Traversed(body, inClass) ==
    IF body = <<>> THEN <<>>
    ELSE (IF body[1].type = "ClassDef"
          THEN Traversed(body[1].body, TRUE) \o <<body[1]>>
          ELSE IF body[1].type = "FunctionDef"
          THEN (IF inClass /\ body[1].name = "__init__"
                THEN Traversed(body[1].body, inClass)
                ELSE <<>>)
          ELSE Traversed(body[1].body, inClass))
         \o Traversed(Tail(body), inClass)

HeaderOf(class) == "class " \o class.name \o " {"

\* The class headers written, in order.
Headers == Texts(SelectSeq(dest, IsClassHeader))

\* C19 as stated: every class definition of the tree, those in the bodies
\* of functions and methods included, has exactly one block in the output.
C19_EveryClassOnce ==
    FileDone =>
        LET all == AllClasses(tree.body)
        IN  /\ Len(Headers) = Len(all)
            /\ \A i \in 1..Len(all) :
                  Cardinality({j \in 1..Len(Headers) :
                                  Headers[j] = HeaderOf(all[i])})
                      = Cardinality({j \in 1..Len(all) :
                                        all[j].name = all[i].name})

\* C19, amended: the classes with a block are those that lie in no
\* function body other than that of an __init__ inside a class; each of
\* them has exactly one block, written when its body ends.
C19_TraversedClassesOnce ==
    FileDone =>
        LET reached == Traversed(tree.body, FALSE)
        IN  Headers = [i \in 1..Len(reached) |-> HeaderOf(reached[i])]

C19_Witness ==
    /\ pc = "done"
    /\ tree = FnTree
    /\ Len(AllClasses(tree.body)) = 6
    /\ Headers = <<"class InIf {", "class Host {", "class Top {">>

-----------------------------------------------------------------------------
(* Indentation, and the output against the stack.                          *)

\* The number of namespaces open where line i of the output begins.
OpenBefore(i) ==
    Count(SubSeq(dest, 1, i - 1), IsNsStart)
        - Count(SubSeq(dest, 1, i - 1), IsNsEnd)

\* The start marker that the end marker at line i closes.
MatchingStart(i) ==
    LET starts == {j \in 1..(i - 1) :
                      /\ IsNsStart(dest[j])
                      /\ OpenBefore(j) = OpenBefore(i) - 1}
    IN  CHOOSE j \in starts : \A k \in starts : k <= j

\* C17: a namespace start marker is indented by the number of namespaces
\* open before it, its end marker by the same number, and every class
\* header, inheritance line and closing brace of a class by the number of
\* namespaces open at its place, which at depth 0 is no indentation.
C17_IndentationIsDepth ==
    \A i \in 1..Len(dest) :
        /\ IsNsStart(dest[i]) => dest[i].tabs = OpenBefore(i)
        /\ IsNsEnd(dest[i]) =>
              /\ dest[i].tabs = OpenBefore(i) - 1
              /\ dest[i].tabs = dest[MatchingStart(i)].tabs
        /\ (IsClassHeader(dest[i]) \/ IsInheritance(dest[i])
              \/ IsClassEnd(dest[i]))
              => dest[i].tabs = OpenBefore(i)

C17_Witness ==
    /\ pc = "done"
    /\ cl_args.root = "a"
    /\ \E i \in 1..Len(dest) :
          dest[i] = [tabs |-> 3, text |-> "class Inner {"]
    /\ \E i \in 1..Len(dest) :
          dest[i] = [tabs |-> 2, text |-> "Animal <|-- Dog"]
    /\ \E i \in 1..Len(dest) :
          IsNsEnd(dest[i]) /\ dest[i].tabs = 0 /\ OpenBefore(i) = 1

\* The name a namespace start marker carries.
NsName(line) ==
    SubSeq(line.text, Len("namespace ") + 1, Len(line.text) - Len(" {"))

RECURSIVE OpenNames(_, _, _)
\* The names of the start markers from line i on that no end marker has
\* closed, in order, after those of `open`.
OpenNames(lines, i, open) ==
    IF i > Len(lines) THEN open
    ELSE IF IsNsStart(lines[i])
         THEN OpenNames(lines, i + 1, Append(open, NsName(lines[i])))
    ELSE IF IsNsEnd(lines[i])
         THEN OpenNames(lines, i + 1, SubSeq(open, 1, Len(open) - 1))
    ELSE OpenNames(lines, i + 1, open)

\* The namespaces of the file at hand.
FileSegments ==
    IF cl_args.root = "" THEN <<>>
    ELSE RelativeSegments(srcfile.name, cl_args.root)

\* C18: in every state the start markers of the output that are not yet
\* closed are, by name and in order, the namespace stack; no end marker
\* comes without an open start marker; and while a file is traversed, so
\* wherever a class block is written, the open markers are the namespaces
\* of that file.
C18_OutputMatchesStack ==
    /\ OpenNames(dest, 1, <<>>) = namespaces
    /\ \A i \in 1..Len(dest) : IsNsEnd(dest[i]) => OpenBefore(i) >= 1
    /\ pc = "visit" => OpenNames(dest, 1, <<>>) = FileSegments

C18_Witness ==
    /\ Returning("visit_ClassDef")
    /\ fileIdx = 3
    /\ classinfo.classname = "Inner"
    /\ Count(dest, IsNsEnd) >= 3
    /\ Count(dest, IsClassEnd) >= 1
    /\ OpenNames(dest, 1, <<>>) = <<"b", "d", "Z">>

-----------------------------------------------------------------------------
(* The visitor between files.                                              *)

\* The class block lines of a file when it is the only file of the run.
BlocksAlone(name) ==
    IF name = "a/b/X.py"
    THEN <<"class Animal {", "}\n",
           "Animal <|-- Dog", "class Dog {", TAB \o "{static} +species",
           TAB \o "+name", TAB \o "+age",
           TAB \o "-__init__(self, name, age)", TAB \o "+bark(self)",
           "}\n">>
    ELSE IF name = "a/b/N.py"
    THEN <<"class Part {", TAB \o "+id", TAB \o "-__init__(self)", "}\n",
           "class Widget {", TAB \o "-__init__(self)", "}\n">>
    ELSE <<>>

RECURSIVE BlocksUpTo(_)
\* The same for the first i files of the run, one after the other.
BlocksUpTo(i) ==
    IF i = 0 THEN <<>>
    ELSE BlocksUpTo(i - 1) \o BlocksAlone(cl_args.py_file[i].name)

\* C20: whenever the main loop is between two traversals no class record
\* is open, constructor mode is off and no visitor call is in progress;
\* and the class blocks written for a file are those the file gives when
\* it is the only one, whatever files came before it.
C20_NoClassStateBetweenFiles ==
    /\ pc \in {"start_file", "parse", "end_file", "footer", "done"} =>
          /\ classinfo = None
          /\ ~constructor
          /\ frames = <<>>
    /\ pc = "end_file" =>
          Texts(SelectSeq(dest, IsBlockLine)) = BlocksUpTo(fileIdx)

C20_Witness ==
    /\ pc = "end_file"
    /\ fileIdx = 3
    /\ cl_args.py_file[1].name = "a/b/N.py"
    /\ cl_args.py_file[2].name = "a/b/X.py"
    /\ cl_args.py_file[3].name = "a/b/N.py"
    /\ classinfo = None
    /\ ~constructor
    /\ Count(dest, IsClassEnd) = 6

====
